---- MODULE Spec2Model ----
(***************************************************************************)
(* Model of simple-rss.js: the SimpleRSSGenerator transformation           *)
(* (generateRSS, createRSSItem, cleanDescription), the SimpleShopifyAPI    *)
(* client and the three data endpoints of the express application.         *)
(*                                                                         *)
(* A JavaScript string that the code inspects character by character       *)
(* (descriptions, tags) is a sequence of one-character strings; a string   *)
(* the code only copies is a TLA+ string; a template literal is the tuple  *)
(* of its parts.  An object property that is undefined is a field that is  *)
(* not in the DOMAIN of the record.                                        *)
(***************************************************************************)
EXTENDS Integers, Sequences, FiniteSets, TLC

VARIABLES
    html,       \* cleanDescription: the argument
    clean,      \* cleanDescription: successive values of the local `clean`
    again,      \* cleanDescription applied to its own result
    pcC,        \* position of the sanitization run
    products,   \* generateRSS: the argument `products`
    config,     \* generateRSS: the argument `config`
    feed,       \* generateRSS: the rssObject handed to the builder
    pcF,        \* position of the feed generation run
    env,        \* process.env
    reqs        \* the requests of the express application

vars == <<html, clean, again, pcC, products, config, feed, pcF, env, reqs>>

cleanVars == <<html, clean, again, pcC>>
feedVars == <<products, config, feed, pcF>>
httpVars == <<env, reqs>>

----------------------------------------------------------------------------
(* Bounds of the model *)

MaxTokens == 3      \* tokens concatenated into a short description
LongSlack == 2      \* long descriptions have MaxDescLen -/+ LongSlack fill characters
MaxImages == 2      \* images of a product
MaxVariants == 2    \* variants of a product
MaxTagTokens == 4   \* tokens concatenated into a tags string
MaxProducts == 3    \* products of a list handed to generateRSS
MaxUpstream == 2    \* products of a list returned by the upstream API
MaxReq == 2         \* requests handled by the application

----------------------------------------------------------------------------
(* Program constants of cleanDescription *)

MaxDescLen == 500
TruncLen == 497
Ellipsis == <<".", ".", ".">>

----------------------------------------------------------------------------
(* Character-level helpers *)

\* /\s/ restricted to the whitespace characters of the model's alphabet
IsSpace(c) == c \in {" ", "\n", "\t"}

\* does the literal pat occur in s at index i
MatchAt(s, i, pat) ==
    /\ i + Len(pat) - 1 <= Len(s)
    /\ \A k \in 1..Len(pat) : s[i + k - 1] = pat[k]

\* s contains the literal pat
Contains(s, pat) == \E i \in 1..Len(s) : MatchAt(s, i, pat)

----------------------------------------------------------------------------
(* html.replace(/<[^>]*>/g, '')                                            *)
(* The regex engine scans left to right.  At a '<' it matches up to the    *)
(* first following '>' ([^>]* cannot cross a '>'); when no '>' follows,    *)
(* the '<' is kept.  The scan over s[lo..hi] is split in two halves, the   *)
(* second half starting in the state the first half ends in: inTag is TRUE *)
(* while the scanner is inside a match.                                    *)

HasGtAfter(s, i) == \E q \in (i + 1)..Len(s) : s[q] = ">"

RECURSIVE StripScan(_, _, _, _)
StripScan(s, lo, hi, inTag) ==
    IF lo > hi THEN [out |-> <<>>, inTag |-> inTag]
    ELSE IF lo = hi THEN
        IF inTag
        THEN [out |-> <<>>, inTag |-> s[lo] # ">"]
        ELSE IF s[lo] = "<" /\ HasGtAfter(s, lo)
             THEN [out |-> <<>>, inTag |-> TRUE]
             ELSE [out |-> <<s[lo]>>, inTag |-> FALSE]
    ELSE LET mid == (lo + hi) \div 2
             l == StripScan(s, lo, mid, inTag)
             r == StripScan(s, mid + 1, hi, l.inTag)
         IN  [out |-> l.out \o r.out, inTag |-> r.inTag]

StripTags(s) == StripScan(s, 1, Len(s), FALSE).out

----------------------------------------------------------------------------
(* String.prototype.replace with a global literal pattern: left to right,  *)
(* non-overlapping, the replacement text is not rescanned.  skip is the    *)
(* number of characters of the current match still to be consumed.         *)

RECURSIVE ReplaceScan(_, _, _, _, _, _)
ReplaceScan(s, pat, rep, lo, hi, skip) ==
    IF lo > hi THEN [out |-> <<>>, skip |-> skip]
    ELSE IF lo = hi THEN
        IF skip > 0
        THEN [out |-> <<>>, skip |-> skip - 1]
        ELSE IF MatchAt(s, lo, pat)
             THEN [out |-> rep, skip |-> Len(pat) - 1]
             ELSE [out |-> <<s[lo]>>, skip |-> 0]
    ELSE LET mid == (lo + hi) \div 2
             l == ReplaceScan(s, pat, rep, lo, mid, skip)
             r == ReplaceScan(s, pat, rep, mid + 1, hi, l.skip)
         IN  [out |-> l.out \o r.out, skip |-> r.skip]

ReplaceAll(s, pat, rep) == ReplaceScan(s, pat, rep, 1, Len(s), 0).out

\* the six entities of cleanDescription, in the order of the replace chain
Entities == <<
    [pat |-> <<"&", "a", "m", "p", ";">>,      rep |-> <<"&">>],
    [pat |-> <<"&", "l", "t", ";">>,           rep |-> <<"<">>],
    [pat |-> <<"&", "g", "t", ";">>,           rep |-> <<">">>],
    [pat |-> <<"&", "q", "u", "o", "t", ";">>, rep |-> <<"\"">>],
    [pat |-> <<"&", "#", "3", "9", ";">>,      rep |-> <<"'">>],
    [pat |-> <<"&", "n", "b", "s", "p", ";">>, rep |-> <<" ">> ] >>

\* the chain of six .replace calls: each call works on the result of the previous one
RECURSIVE DecodeChain(_, _)
DecodeChain(s, k) ==
    IF k > Len(Entities) THEN s
    ELSE DecodeChain(ReplaceAll(s, Entities[k].pat, Entities[k].rep), k + 1)

DecodeEntities(s) == DecodeChain(s, 1)

----------------------------------------------------------------------------
(* clean.replace(/\s+/g, ' ').trim()                                       *)

\* variant of CollapseSpaces: /\s\s/g -> ' ', every pair of whitespace
\* characters becomes one space, a single one is kept
RECURSIVE CollapsePairsScan(_, _, _)
CollapsePairsScan(s, lo, hi) ==
    IF lo > hi THEN <<>>
    ELSE IF lo = hi THEN
        IF IsSpace(s[lo])
        THEN LET stops == {j \in 1..(lo - 1) : ~IsSpace(s[j])}
                 before == IF stops = {} THEN lo - 1
                           ELSE lo - 1 - (CHOOSE j \in stops : \A k \in stops : k <= j)
             IN  IF before % 2 = 0
                 THEN IF lo < Len(s) /\ IsSpace(s[lo + 1]) THEN <<" ">> ELSE <<s[lo]>>
                 ELSE <<>>
        ELSE <<s[lo]>>
    ELSE LET mid == (lo + hi) \div 2
         IN  CollapsePairsScan(s, lo, mid) \o CollapsePairsScan(s, mid + 1, hi)

CollapseSpacesPairs(s) == CollapsePairsScan(s, 1, Len(s))

\* /\s+/g -> ' ': the first character of every whitespace run becomes one space
RECURSIVE CollapseScan(_, _, _)
CollapseScan(s, lo, hi) ==
    IF lo > hi THEN <<>>
    ELSE IF lo = hi THEN
        IF IsSpace(s[lo])
        THEN IF lo > 1 /\ IsSpace(s[lo - 1]) THEN <<>> ELSE <<" ">>
        ELSE <<s[lo]>>
    ELSE LET mid == (lo + hi) \div 2
         IN  CollapseScan(s, lo, mid) \o CollapseScan(s, mid + 1, hi)

CollapseSpaces(s) == CollapseScan(s, 1, Len(s))

\* String.prototype.trim
Trim(s) ==
    LET keep == {i \in 1..Len(s) : ~IsSpace(s[i])}
    IN  IF keep = {} THEN <<>>
        ELSE LET first == CHOOSE i \in keep : \A j \in keep : i <= j
                 last == CHOOSE i \in keep : \A j \in keep : j <= i
             IN  SubSeq(s, first, last)

CollapseWhitespace(s) == Trim(CollapseSpaces(s))

\* variant of Truncate: substring(0, 500) + '...'
TruncateLate(s) ==
    IF Len(s) > MaxDescLen THEN SubSeq(s, 1, MaxDescLen) \o Ellipsis ELSE s

\* if (clean.length > 500) clean = clean.substring(0, 497) + '...'
Truncate(s) ==
    IF Len(s) > MaxDescLen THEN SubSeq(s, 1, TruncLen) \o Ellipsis ELSE s

\* the successive values of the local `clean` of cleanDescription(h)
CleanSteps(h) ==
    LET stripped == StripTags(h)
        decoded == DecodeEntities(stripped)
        collapsed == CollapseWhitespace(decoded)
    IN  [stripped |-> stripped, decoded |-> decoded,
         collapsed |-> collapsed, result |-> Truncate(collapsed)]

\* cleanDescription(html); '' (like undefined) is falsy and returns ''
cleanDescription(h) == IF h = <<>> THEN <<>> ELSE CleanSteps(h).result

----------------------------------------------------------------------------
(* Inputs of the sanitization runs *)

Tokens == {
    <<"&", "a", "m", "p", ";">>, <<"&", "l", "t", ";">>, <<"&", "g", "t", ";">>,
    <<"&", "q", "u", "o", "t", ";">>, <<"&", "#", "3", "9", ";">>,
    <<"&", "n", "b", "s", "p", ";">>,
    <<"l", "t", ";">>, <<"<">>, <<">">>, <<"<", "b", ">">>,
    <<"a">>, <<" ">>, <<"\n">>, <<"\n", " ", " ">> }

\* the concatenations of at most n elements of T
RECURSIVE Concats(_, _)
Concats(T, n) ==
    IF n = 0 THEN {<<>>}
    ELSE LET shorter == Concats(T, n - 1)
         IN  shorter \cup {q \o t : q \in shorter, t \in T}

Affixes == { <<>>, <<" ">>, <<"<", "b", ">">>, <<"&", "a", "m", "p", ";">>,
             <<"&", "a", "m", "p", ";", "l", "t", ";">> }

Fill(kind, n) ==
    [i \in 1..n |-> IF kind = "words" /\ i % 2 = 0 THEN " " ELSE "a"]

LongStrings ==
    { pre \o Fill(kind, n) \o post :
        pre \in Affixes, post \in Affixes, kind \in {"word", "words"},
        n \in (MaxDescLen - LongSlack)..(MaxDescLen + LongSlack) }

Descriptions == Concats(Tokens, MaxTokens) \cup LongStrings

NoClean == [stripped |-> <<>>, decoded |-> <<>>, collapsed |-> <<>>, result |-> <<>>]

InitClean ==
    /\ html \in Descriptions
    /\ clean = NoClean
    /\ again = <<>>
    /\ pcC = "input"

IdleClean ==
    /\ html = <<>>
    /\ clean = NoClean
    /\ again = <<>>
    /\ pcC = "unused"

\* one call cleanDescription(html)
CleanDescription ==
    /\ pcC = "input"
    /\ clean' = (IF html = <<>> THEN NoClean ELSE CleanSteps(html))
    /\ pcC' = "cleaned"
    /\ UNCHANGED <<html, again>>

\* a second call, on the result of the first
CleanAgain ==
    /\ pcC = "cleaned"
    /\ again' = cleanDescription(clean.result)
    /\ pcC' = "twice"
    /\ UNCHANGED <<html, clean>>

----------------------------------------------------------------------------
(* JavaScript objects: a property that is undefined is not in the DOMAIN   *)

Has(o, f) == f \in DOMAIN o

\* an object with the single property f, or no property when opt is empty
\* (opt is a tuple of zero or one value)
Prop(f, opt) == IF opt = <<>> THEN <<>> ELSE f :> opt[1]

\* o[f] is a non-empty string (strings are the only falsy values of the model's fields)
TruthyStr(o, f) == Has(o, f) /\ o[f] # ""
TruthyChars(o, f) == Has(o, f) /\ o[f] # <<>>

----------------------------------------------------------------------------
(* SimpleRSSGenerator.createRSSItem                                        *)

\* string literals are transliterated to ASCII
DefaultTitle == "Magaza Urunleri"
DefaultDescription == "Magazamizdaki tum urunler"
DefaultLink == <<"https://shop.myshopify.com">>
DefaultLanguage == "tr"
Generator == "Simple Shopify RSS Generator"
Currency == "TRY"
ImageType == "image/jpeg"
ImageMedium == "image"

\* new Date(x).toUTCString() on the timestamps of the model
ToUTCString(t) ==
    CASE t = "2024-01-01T00:00:00Z" -> "Mon, 01 Jan 2024 00:00:00 GMT"
      [] t = "2024-06-15T12:30:00Z" -> "Sat, 15 Jun 2024 12:30:00 GMT"
      [] OTHER -> "Invalid Date"

\* tags.split(','): the segments between the commas, none dropped
RECURSIVE Split(_)
Split(s) ==
    IF \A i \in 1..Len(s) : s[i] # "," THEN <<s>>
    ELSE LET i == CHOOSE k \in 1..Len(s) :
                      s[k] = "," /\ \A j \in 1..(k - 1) : s[j] # ","
         IN  <<SubSeq(s, 1, i - 1)>> \o Split(SubSeq(s, i + 1, Len(s)))

\* variant of SubjectsOf: .filter(tag => tag) appended
SubjectsOfNonEmpty(tags) ==
    LET NonEmpty(t) == t # <<>>
    IN  SelectSeq([i \in 1..Len(Split(tags)) |-> Trim(Split(tags)[i])], NonEmpty)

\* product.tags.split(',').map(tag => tag.trim())
SubjectsOf(tags) == [i \in 1..Len(Split(tags)) |-> Trim(Split(tags)[i])]

\* product.body_html || product.description; undefined is rendered as '',
\* which cleanDescription treats the same way
DescriptionSource(product) ==
    IF TruthyChars(product, "body_html") THEN product.body_html
    ELSE IF Has(product, "description") THEN product.description
    ELSE <<>>

\* config.link || 'https://shop.myshopify.com'; a link is the tuple of its parts
BaseUrl(cfg) == IF TruthyChars(cfg, "link") THEN cfg.link ELSE DefaultLink
TitleOf(cfg) == IF TruthyStr(cfg, "title") THEN cfg.title ELSE DefaultTitle

\* if (product.images && product.images.length > 0)
HasImages(product) == Has(product, "images") /\ Len(product.images) > 0

\* if (product.variants && product.variants.length > 0)
HasVariants(product) == Has(product, "variants") /\ Len(product.variants) > 0

\* variant of MediaFields: the thumbnail is taken from the last image
MediaFieldsLastThumbnail(product) ==
    IF Has(product, "images") /\ Len(product.images) > 0
    THEN ("media:content" :>
            [i \in 1..Len(product.images) |->
                [attrs |-> [url |-> product.images[i].src,
                            type |-> ImageType, medium |-> ImageMedium]]])
         @@ ("media:thumbnail" :>
                [attrs |-> [url |-> product.images[Len(product.images)].src]])
    ELSE <<>>

\* item['media:content'] and item['media:thumbnail']; attrs is the `$` of xml2js
MediaFields(product) ==
    IF HasImages(product)
    THEN ("media:content" :>
            [i \in 1..Len(product.images) |->
                [attrs |-> [url |-> product.images[i].src,
                            type |-> ImageType, medium |-> ImageMedium]]])
         @@ ("media:thumbnail" :> [attrs |-> [url |-> product.images[1].src]])
    ELSE <<>>

\* variant of PriceField: the price is taken from the last variant
PriceFieldLastVariant(product) ==
    IF Has(product, "variants") /\ Len(product.variants) > 0
    THEN "media:price" :> [attrs |-> [currency |-> Currency],
                           text |-> product.variants[Len(product.variants)].price]
    ELSE <<>>

\* item['media:price']; text is the `_` of xml2js
PriceField(product) ==
    IF HasVariants(product)
    THEN "media:price" :> [attrs |-> [currency |-> Currency],
                           text |-> product.variants[1].price]
    ELSE <<>>

CategoryField(product) ==
    IF TruthyStr(product, "product_type")
    THEN "category" :> product.product_type
    ELSE <<>>

SubjectField(product) ==
    IF TruthyChars(product, "tags")
    THEN "dc:subject" :> SubjectsOf(product.tags)
    ELSE <<>>

createRSSItem(product, cfg) ==
    [ title |-> product.title,
      description |-> cleanDescription(DescriptionSource(product)),
      link |-> BaseUrl(cfg) \o <<"/products/", product.handle>>,
      guid |-> [attrs |-> [isPermaLink |-> "true"],
                text |-> BaseUrl(cfg) \o <<"/products/", product.handle>>],
      pubDate |-> ToUTCString(product.updated_at) ]
    @@ ("dc:creator" :> TitleOf(cfg))
    @@ MediaFields(product)
    @@ PriceField(product)
    @@ CategoryField(product)
    @@ SubjectField(product)

----------------------------------------------------------------------------
(* SimpleRSSGenerator.generateRSS                                          *)

\* variant of ItemsOf: the items are emitted in reverse order
ItemsOfReversed(prods, cfg) ==
    [i \in 1..Len(prods) |-> createRSSItem(prods[Len(prods) + 1 - i], cfg)]

\* products.map(product => this.createRSSItem(product, config))
ItemsOf(prods, cfg) == [i \in 1..Len(prods) |-> createRSSItem(prods[i], cfg)]

\* the rssObject literal; now is the reading of new Date()
RssObject(prods, cfg, now) ==
    [rss |->
        [attrs |-> [version |-> "2.0",
                    xmlns_media |-> "http://search.yahoo.com/mrss/",
                    xmlns_dc |-> "http://purl.org/dc/elements/1.1/"],
         channel |->
            [title |-> TitleOf(cfg),
             description |-> IF TruthyStr(cfg, "description")
                             THEN cfg.description ELSE DefaultDescription,
             link |-> BaseUrl(cfg),
             language |-> IF TruthyStr(cfg, "language")
                          THEN cfg.language ELSE DefaultLanguage,
             lastBuildDate |-> ToUTCString(now),
             generator |-> Generator,
             item |-> ItemsOf(prods, cfg)]]]

\* builder.buildObject: the XML declaration followed by the element tree of the object
buildObject(obj) ==
    [xmldec |-> [version |-> "1.0", encoding |-> "UTF-8"], root |-> obj]

generateRSS(prods, cfg, now) == buildObject(RssObject(prods, cfg, now))

----------------------------------------------------------------------------
(* Inputs of the feed generation runs *)

RECURSIVE SeqsUpTo(_, _)
SeqsUpTo(S, n) ==
    IF n = 0 THEN {<<>>}
    ELSE LET shorter == SeqsUpTo(S, n - 1)
         IN  shorter \cup {Append(q, x) : q \in shorter, x \in S}

\* an optional value: the empty tuple (undefined) or a tuple with the value
Options(S) == {<<>>} \cup {<<x>> : x \in S}

ImageUrls == {"https://cdn/1.jpg", "https://cdn/2.png"}
Prices == {"10.00", "25.50"}
TagTokens == {<<"a">>, <<"b">>, <<",">>, <<" ">>}
SampleBody == <<"<", "p", ">", "a", " ", "&", "a", "m", "p", ";", " ", "b", "<", "/", "p", ">">>

ImageOptions == Options(SeqsUpTo({[src |-> u] : u \in ImageUrls}, MaxImages))
VariantOptions == Options(SeqsUpTo({[price |-> p] : p \in Prices}, MaxVariants))
TagOptions == Options(Concats(TagTokens, MaxTagTokens))
TypeOptions == Options({"", "Shoes"})
BodyOptions == Options({<<>>, SampleBody})

MakeProduct(images, variants, tags, type, body) ==
    [title |-> "Product", handle |-> "product", updated_at |-> "2024-01-01T00:00:00Z"]
    @@ Prop("description", <<<<"p", "l", "a", "i", "n">>>>)
    @@ Prop("images", images) @@ Prop("variants", variants)
    @@ Prop("tags", tags) @@ Prop("product_type", type) @@ Prop("body_html", body)

\* products varying in their media, price and category fields
MediaProducts ==
    { MakeProduct(i, v, t, ty, b) :
        i \in ImageOptions, v \in VariantOptions,
        t \in {<<>>, << <<"a", ",", " ", "b">> >>}, ty \in TypeOptions, b \in BodyOptions }

\* products varying in their tags
TagProducts ==
    { MakeProduct(<<>>, <<>>, t, <<>>, <<>>) : t \in TagOptions }

\* the products of the multi-item lists: the full and the minimal product of
\* the end-to-end test of the specification, and two in between
FullProduct ==
    MakeProduct(<< <<[src |-> "https://cdn/1.jpg"], [src |-> "https://cdn/2.png"]>> >>,
                << <<[price |-> "10.00"], [price |-> "25.50"]>> >>,
                << <<"a", ",", " ", "b", " ", ",", "c">> >>, <<"Shoes">>, <<SampleBody>>)

MinimalProduct ==
    [title |-> "Minimal", handle |-> "minimal", updated_at |-> "2024-06-15T12:30:00Z"]

SampleProducts ==
    { FullProduct, MinimalProduct,
      MakeProduct(<< <<[src |-> "https://cdn/2.png"]>> >>, <<>>, <<>>, <<>>, <<>>),
      MakeProduct(<<>>, << <<[price |-> "25.50"]>> >>, << <<"b", ",">> >>, <<>>, <<>>) }

ProductLists ==
    {<<p>> : p \in MediaProducts \cup TagProducts} \cup SeqsUpTo(SampleProducts, MaxProducts)

\* the config argument: omitted ({}), or the record the handlers build
Configs ==
    { <<>>,
      [title |-> "My Feed", description |-> "My products",
       link |-> <<"https://", "shop.example.com">>, language |-> "tr"] }

Times == {"2024-01-01T00:00:00Z", "2024-06-15T12:30:00Z"}

NoFeed == [xmldec |-> <<>>, root |-> <<>>]

InitFeed ==
    /\ products \in ProductLists
    /\ config \in Configs
    /\ feed = NoFeed
    /\ pcF = "input"

IdleFeed ==
    /\ products = <<>>
    /\ config = <<>>
    /\ feed = NoFeed
    /\ pcF = "unused"

\* one call generateRSS(products, config)
GenerateRSS ==
    /\ pcF = "input"
    /\ \E now \in Times : feed' = generateRSS(products, config, now)
    /\ pcF' = "built"
    /\ UNCHANGED <<products, config>>

\* the items of the channel of a built feed
FeedItems == feed.root.rss.channel.item

----------------------------------------------------------------------------
(* JavaScript values of the upstream payload, tagged with their type:      *)
(* [type |-> "array", items |-> <<...>>], [type |-> "string", chars |-> s],*)
(* [type |-> "number", n |-> k], and "undefined", "null", "object" without *)
(* content.  The completion of an expression is a value or a thrown error. *)

Undefined == [type |-> "undefined"]
Null == [type |-> "null"]
Return(v) == [threw |-> FALSE, value |-> v]
Throw(m) == [threw |-> TRUE, message |-> m]

\* v.length
JsLength(v) ==
    CASE v.type = "undefined" ->
            Throw("Cannot read properties of undefined (reading 'length')")
      [] v.type = "null" ->
            Throw("Cannot read properties of null (reading 'length')")
      [] v.type = "array" -> Return([type |-> "number", n |-> Len(v.items)])
      [] v.type = "string" -> Return([type |-> "number", n |-> Len(v.chars)])
      [] OTHER -> Return(Undefined)

\* `${v}` for a number or undefined
JsToString(v) == IF v.type = "number" THEN ToString(v.n) ELSE "undefined"

\* { count: v }: JSON.stringify drops a property whose value is undefined
CountProp(v) == IF v.type = "number" THEN "count" :> v.n ELSE <<>>

----------------------------------------------------------------------------
(* SimpleShopifyAPI                                                        *)

PageLimit == 250

\* `${o[f]}`: an undefined property is rendered as 'undefined'
Interpolate(o, f) == IF Has(o, f) THEN o[f] ELSE "undefined"

\* the constructor called with the two environment variables of e, and the
\* arguments of axios.get in getAllProducts
UpstreamRequest(e) ==
    [url |-> <<"https://", Interpolate(e, "SHOPIFY_SHOP_DOMAIN"),
               "/admin/api/2023-10", "/products.json">>,
     headers |-> (IF Has(e, "SHOPIFY_ACCESS_TOKEN")
                  THEN "X-Shopify-Access-Token" :> e.SHOPIFY_ACCESS_TOKEN
                  ELSE <<>>)
                 @@ ("Content-Type" :> "application/json"),
     params |-> [limit |-> PageLimit, status |-> "active",
                 published_status |-> "published"]]

\* what axios.get can settle with: a rejection (transport error, non-2xx
\* status) or a response whose data is null or an object
UpstreamErrors ==
    { [kind |-> "error", message |-> "Network Error"],
      [kind |-> "error", message |-> "Request failed with status code 401"] }

\* the product lists of a response: the first n products of a catalog in
\* which the full and the minimal product alternate
UpstreamLists ==
    { [i \in 1..n |-> IF i % 2 = 1 THEN FullProduct ELSE MinimalProduct] :
        n \in 0..MaxUpstream }

NonListValues ==
    { Null, [type |-> "object"], [type |-> "number", n |-> 7],
      [type |-> "string", chars |-> <<"a", "b", "c">>] }

Payloads ==
    { Null, [type |-> "object"] }
    \cup { [type |-> "object", products |-> v] : v \in NonListValues }
    \cup { [type |-> "object", products |-> [type |-> "array", items |-> l]] :
             l \in UpstreamLists }

UpstreamOutcomes ==
    UpstreamErrors \cup { [kind |-> "response", data |-> d] : d \in Payloads }

\* getAllProducts, given what axios.get settles with: the catch block rethrows
getAllProducts(outcome) ==
    IF outcome.kind = "error" THEN Throw(outcome.message)
    ELSE IF outcome.data.type = "null"
         THEN Throw("Cannot read properties of null (reading 'products')")
         ELSE IF Has(outcome.data, "products")
              THEN Return(outcome.data.products)
              ELSE Return(Undefined)

----------------------------------------------------------------------------
(* The data endpoints                                                      *)

JsonType == "application/json; charset=utf-8"
RssType == "application/rss+xml; charset=utf-8"

\* res.status(code).json(body)
JsonResponse(code, body) == [status |-> code, contentType |-> JsonType, body |-> body]

\* variant of ConfigMissing: if (!shopDomain && !accessToken)
ConfigMissingBoth(e) ==
    ~TruthyStr(e, "SHOPIFY_SHOP_DOMAIN") /\ ~TruthyStr(e, "SHOPIFY_ACCESS_TOKEN")

\* if (!shopDomain || !accessToken)
ConfigMissing(e) ==
    ~TruthyStr(e, "SHOPIFY_SHOP_DOMAIN") \/ ~TruthyStr(e, "SHOPIFY_ACCESS_TOKEN")

ConfigMissingResponse ==
    JsonResponse(500,
        [error |-> "Shopify konfigurasyonu eksik",
         message |-> "SHOPIFY_SHOP_DOMAIN ve SHOPIFY_ACCESS_TOKEN environment variables'larini ayarlayin"])

\* the config object of the /rss handler
RssFeedConfig(e) ==
    [title |-> IF TruthyStr(e, "RSS_TITLE") THEN e.RSS_TITLE ELSE DefaultTitle,
     description |-> IF TruthyStr(e, "RSS_DESCRIPTION")
                     THEN e.RSS_DESCRIPTION ELSE DefaultDescription,
     link |-> <<"https://", Interpolate(e, "SHOPIFY_SHOP_DOMAIN")>>,
     language |-> "tr"]

\* the /rss handler from the settling of axios.get to its response
RssResponse(e, outcome, now) ==
    LET got == getAllProducts(outcome)
        label == "RSS feed olusturulamadi"
    IN  IF got.threw
        THEN JsonResponse(500, [error |-> label, message |-> got.message])
        ELSE IF JsLength(got.value).threw
        THEN JsonResponse(500, [error |-> label,
                                message |-> JsLength(got.value).message])
        ELSE IF got.value.type # "array"
        THEN JsonResponse(500, [error |-> label,
                                message |-> "products.map is not a function"])
        ELSE [status |-> 200, contentType |-> RssType,
              body |-> generateRSS(got.value.items, RssFeedConfig(e), now)]

\* variant of PinterestFeedConfig: a language of its own
PinterestFeedConfigEn(e) ==
    [title |-> IF TruthyStr(e, "RSS_TITLE") THEN e.RSS_TITLE ELSE DefaultTitle,
     description |-> IF TruthyStr(e, "RSS_DESCRIPTION")
                     THEN e.RSS_DESCRIPTION ELSE DefaultDescription,
     link |-> <<"https://", Interpolate(e, "SHOPIFY_SHOP_DOMAIN")>>,
     language |-> "en"]

\* the config object of the /rss/pinterest handler
PinterestFeedConfig(e) ==
    [title |-> IF TruthyStr(e, "RSS_TITLE") THEN e.RSS_TITLE ELSE DefaultTitle,
     description |-> IF TruthyStr(e, "RSS_DESCRIPTION")
                     THEN e.RSS_DESCRIPTION ELSE DefaultDescription,
     link |-> <<"https://", Interpolate(e, "SHOPIFY_SHOP_DOMAIN")>>,
     language |-> "tr"]

\* the /rss/pinterest handler from the settling of axios.get to its response
PinterestResponse(e, outcome, now) ==
    LET got == getAllProducts(outcome)
        label == "Pinterest RSS feed olusturulamadi"
    IN  IF got.threw
        THEN JsonResponse(500, [error |-> label, message |-> got.message])
        ELSE IF JsLength(got.value).threw
        THEN JsonResponse(500, [error |-> label,
                                message |-> JsLength(got.value).message])
        ELSE IF got.value.type # "array"
        THEN JsonResponse(500, [error |-> label,
                                message |-> "products.map is not a function"])
        ELSE [status |-> 200, contentType |-> RssType,
              body |-> generateRSS(got.value.items, PinterestFeedConfig(e), now)]

\* the /api/products/count handler from the settling of axios.get to its response
CountResponse(outcome) ==
    LET got == getAllProducts(outcome)
        label == "Urun sayisi alinamadi"
    IN  IF got.threw
        THEN JsonResponse(500, [error |-> label, message |-> got.message])
        ELSE IF JsLength(got.value).threw
        THEN JsonResponse(500, [error |-> label,
                                message |-> JsLength(got.value).message])
        ELSE JsonResponse(200,
                CountProp(JsLength(got.value).value)
                @@ [message |-> <<JsToString(JsLength(got.value).value),
                                  " aktif urun bulundu">>])

----------------------------------------------------------------------------
(* Requests.  A handler runs up to `await shopifyAPI.getAllProducts()` in   *)
(* one step and from the settling of the call to its response in another;  *)
(* the steps of different requests interleave.                             *)

Requests == 1..MaxReq

NoOutcome == [kind |-> "none"]

NewRequest == [pc |-> "idle", path |-> "", calls |-> <<>>,
               upstream |-> NoOutcome, responses |-> <<>>]

EnvOptions ==
    { Prop("SHOPIFY_SHOP_DOMAIN", d) @@ Prop("SHOPIFY_ACCESS_TOKEN", t)
      @@ Prop("RSS_TITLE", o) @@ Prop("RSS_DESCRIPTION", o) :
        d \in Options({"", "shop.example.com"}),
        t \in Options({"", "shpat_1"}),
        o \in Options({"My Feed"}) }

InitHttp ==
    /\ env \in EnvOptions
    /\ reqs = [r \in Requests |-> NewRequest]

IdleHttp ==
    /\ env = <<>>
    /\ reqs = <<>>

\* requests are numbered in the order of their arrival
Arrives(r) ==
    /\ reqs[r].pc = "idle"
    /\ r > 1 => reqs[r - 1].pc # "idle"

\* the first step of the three handlers: the configuration check, then the
\* construction of the client and the call of axios.get
Begin(r, path) ==
    IF ConfigMissing(env)
    THEN [reqs EXCEPT ![r] = [NewRequest EXCEPT
            !.pc = "done", !.path = path,
            !.responses = <<ConfigMissingResponse>>]]
    ELSE [reqs EXCEPT ![r] = [NewRequest EXCEPT
            !.pc = "await", !.path = path,
            !.calls = <<UpstreamRequest(env)>>]]

\* the second step: the call has settled with outcome, the handler responds
Settle(r, outcome, response) ==
    [reqs EXCEPT ![r].pc = "done", ![r].upstream = outcome,
                 ![r].responses = Append(@, response)]

RssStart(r) ==
    /\ Arrives(r)
    /\ reqs' = Begin(r, "/rss")
    /\ UNCHANGED env

RssResume(r) ==
    /\ reqs[r].pc = "await" /\ reqs[r].path = "/rss"
    /\ \E outcome \in UpstreamOutcomes, now \in Times :
          reqs' = Settle(r, outcome, RssResponse(env, outcome, now))
    /\ UNCHANGED env

PinterestStart(r) ==
    /\ Arrives(r)
    /\ reqs' = Begin(r, "/rss/pinterest")
    /\ UNCHANGED env

PinterestResume(r) ==
    /\ reqs[r].pc = "await" /\ reqs[r].path = "/rss/pinterest"
    /\ \E outcome \in UpstreamOutcomes, now \in Times :
          reqs' = Settle(r, outcome, PinterestResponse(env, outcome, now))
    /\ UNCHANGED env

CountStart(r) ==
    /\ Arrives(r)
    /\ reqs' = Begin(r, "/api/products/count")
    /\ UNCHANGED env

CountResume(r) ==
    /\ reqs[r].pc = "await" /\ reqs[r].path = "/api/products/count"
    /\ \E outcome \in UpstreamOutcomes :
          reqs' = Settle(r, outcome, CountResponse(outcome))
    /\ UNCHANGED env

----------------------------------------------------------------------------
(* Specifications *)

\* the express application
Init == InitHttp /\ IdleClean /\ IdleFeed

Next ==
    \E r \in Requests :
        \/ RssStart(r) /\ UNCHANGED <<cleanVars, feedVars>>
        \/ RssResume(r) /\ UNCHANGED <<cleanVars, feedVars>>
        \/ PinterestStart(r) /\ UNCHANGED <<cleanVars, feedVars>>
        \/ PinterestResume(r) /\ UNCHANGED <<cleanVars, feedVars>>
        \/ CountStart(r) /\ UNCHANGED <<cleanVars, feedVars>>
        \/ CountResume(r) /\ UNCHANGED <<cleanVars, feedVars>>

Spec == Init /\ [][Next]_vars

\* cleanDescription applied to descriptions
InitCleanSpec == InitClean /\ IdleFeed /\ IdleHttp

NextClean ==
    \/ CleanDescription /\ UNCHANGED <<feedVars, httpVars>>
    \/ CleanAgain /\ UNCHANGED <<feedVars, httpVars>>

SpecClean == InitCleanSpec /\ [][NextClean]_vars

\* generateRSS applied to product lists
InitFeedSpec == InitFeed /\ IdleClean /\ IdleHttp

NextFeed == GenerateRSS /\ UNCHANGED <<cleanVars, httpVars>>

SpecFeed == InitFeedSpec /\ [][NextFeed]_vars

----------------------------------------------------------------------------
(* Properties of the data endpoints (specification Spec)                   *)

\* process.env[f] is absent or the empty string
AbsentOrEmpty(f) == f \notin DOMAIN env \/ env[f] = ""

CredentialsIncomplete ==
    AbsentOrEmpty("SHOPIFY_SHOP_DOMAIN") \/ AbsentOrEmpty("SHOPIFY_ACCESS_TOKEN")

\* the answer of a request is one 500 JSON response {error, message}
AnsweredWith500(r) ==
    /\ Len(reqs[r].responses) = 1
    /\ reqs[r].responses[1].status = 500
    /\ reqs[r].responses[1].contentType = JsonType
    /\ DOMAIN reqs[r].responses[1].body = {"error", "message"}

\* C1: on each of the three data endpoints, a request that arrives while the
\* shop domain or the access credential is absent or empty is answered with a
\* 500 JSON response, and no upstream call is made at any point of its handling.
C1_ConfigMissingShortCircuits ==
    \A r \in Requests :
        (reqs[r].pc # "idle" /\ CredentialsIncomplete) =>
            /\ reqs[r].pc = "done"
            /\ reqs[r].calls = <<>>
            /\ AnsweredWith500(r)

\* requests of two endpoints were handled with a domain but an empty credential
C1_Witness ==
    /\ "SHOPIFY_SHOP_DOMAIN" \in DOMAIN env /\ env.SHOPIFY_SHOP_DOMAIN # ""
    /\ "SHOPIFY_ACCESS_TOKEN" \in DOMAIN env /\ env.SHOPIFY_ACCESS_TOKEN = ""
    /\ \E r1, r2 \in Requests :
          /\ reqs[r1].pc = "done" /\ reqs[r1].path = "/api/products/count"
          /\ reqs[r2].pc = "done" /\ reqs[r2].path = "/rss/pinterest"

\* the upstream call failed, or its body has no products list
FailedOrMalformed(o) ==
    \/ o.kind = "error"
    \/ /\ o.kind = "response"
       /\ \/ o.data.type = "null"
          \/ "products" \notin DOMAIN o.data
          \/ o.data.products.type # "array"

\* C2: with the configuration present, a request of a data endpoint whose
\* upstream call fails or returns a payload without a products list is
\* answered with exactly one response, a 500 JSON {error, message}, never a 200.
C2_UpstreamFailureAnsweredWith500 ==
    \A r \in Requests :
        (reqs[r].pc = "done" /\ FailedOrMalformed(reqs[r].upstream)) =>
            AnsweredWith500(r)

\* a response without the generation timestamp of its feed
WithoutBuildDate(resp) ==
    IF resp.contentType = RssType
    THEN [resp EXCEPT !.body.root.rss.channel.lastBuildDate = ""]
    ELSE resp

\* r1 is a finished /rss request, r2 a finished /rss/pinterest request, and
\* both saw the same upstream outcome (none when the configuration is missing)
SameCase(r1, r2) ==
    /\ reqs[r1].pc = "done" /\ reqs[r1].path = "/rss"
    /\ reqs[r2].pc = "done" /\ reqs[r2].path = "/rss/pinterest"
    /\ reqs[r1].upstream = reqs[r2].upstream

\* C9 as stated: for the same configuration and the same upstream outcome,
\* /rss and /rss/pinterest answer with the same status, content type and body
\* (ignoring lastBuildDate), on the success path and on every failure path.
C9_SameResponse ==
    \A r1, r2 \in Requests :
        SameCase(r1, r2) =>
            WithoutBuildDate(reqs[r1].responses[1])
                = WithoutBuildDate(reqs[r2].responses[1])

\* C9 amended: same status and content type on every path; the same body
\* (ignoring lastBuildDate) on success and on missing configuration; on an
\* upstream or generation failure the same message under the endpoint's own
\* error label.
C9_SameResponseUpToErrorLabel ==
    \A r1, r2 \in Requests :
        SameCase(r1, r2) =>
            LET a == reqs[r1].responses[1]
                b == reqs[r2].responses[1]
            IN  /\ Len(reqs[r1].responses) = 1 /\ Len(reqs[r2].responses) = 1
                /\ a.status = b.status
                /\ a.contentType = b.contentType
                /\ IF a.status = 200 \/ reqs[r1].upstream = NoOutcome
                   THEN WithoutBuildDate(a) = WithoutBuildDate(b)
                   ELSE /\ a.body.message = b.body.message
                        /\ a.body.error = "RSS feed olusturulamadi"
                        /\ b.body.error = "Pinterest RSS feed olusturulamadi"

\* both endpoints served a feed of the same non-empty product list
C9_Witness ==
    \E r1, r2 \in Requests :
        /\ SameCase(r1, r2)
        /\ reqs[r1].responses[1].status = 200
        /\ Len(reqs[r1].responses[1].body.root.rss.channel.item) > 0

----------------------------------------------------------------------------
(* Properties of cleanDescription (specification SpecClean)                *)

\* C4: the output of cleanDescription has at most 500 characters; when the
\* text after tag stripping, entity decoding and whitespace collapsing is
\* longer than 500 characters, the output is its first 497 characters
\* followed by '...', 500 characters in all.
C4_LengthBound ==
    pcC # "input" =>
        /\ Len(clean.result) <= 500
        /\ Len(clean.collapsed) > 500 =>
              /\ Len(clean.result) = 500
              /\ SubSeq(clean.result, 1, 497) = SubSeq(clean.collapsed, 1, 497)
              /\ SubSeq(clean.result, 498, 500) = <<".", ".", ".">>

\* a description whose sanitized text is longer than 500 characters was cleaned
C4_Witness == pcC = "cleaned" /\ Len(clean.collapsed) > 500

\* x contains no substring matching <[^>]*>, and none of the six entities
NoTag(x) == ~\E i, j \in 1..Len(x) : i < j /\ x[i] = "<" /\ x[j] = ">"
NoEntity(x) == \A k \in 1..Len(Entities) : ~Contains(x, Entities[k].pat)

CleanPlainText(x) == Len(x) <= 500 /\ NoTag(x) /\ NoEntity(x)

\* C8: on plain text of at most 500 characters without tags and without
\* entities, cleaning the cleaned text gives the cleaned text.
C8_IdempotentOnPlainText ==
    (pcC = "twice" /\ CleanPlainText(html)) => again = clean.result

\* plain text with whitespace to collapse was cleaned twice
C8_Witness ==
    /\ pcC = "twice" /\ CleanPlainText(html)
    /\ clean.result # html /\ clean.result # <<>>
    /\ again = clean.result

\* the six entities replaced in one left-to-right pass over s[lo..hi]
RECURSIVE DecodeOnceScan(_, _, _, _)
DecodeOnceScan(s, lo, hi, skip) ==
    IF lo > hi THEN [out |-> <<>>, skip |-> skip]
    ELSE IF lo = hi THEN
        IF skip > 0
        THEN [out |-> <<>>, skip |-> skip - 1]
        ELSE IF \E k \in 1..Len(Entities) : MatchAt(s, lo, Entities[k].pat)
             THEN LET k == CHOOSE k \in 1..Len(Entities) :
                               MatchAt(s, lo, Entities[k].pat)
                  IN  [out |-> Entities[k].rep, skip |-> Len(Entities[k].pat) - 1]
             ELSE [out |-> <<s[lo]>>, skip |-> 0]
    ELSE LET mid == (lo + hi) \div 2
             l == DecodeOnceScan(s, lo, mid, skip)
             r == DecodeOnceScan(s, mid + 1, hi, l.skip)
         IN  [out |-> l.out \o r.out, skip |-> r.skip]

DecodeOnce(s) == DecodeOnceScan(s, 1, Len(s), 0).out

\* C10: entity decoding decodes each entity occurrence of the tag-stripped
\* text exactly once: its result is the simultaneous left-to-right replacement
\* of the six entities, and text produced by a decoding is not decoded again.
C10_DecodedOnce ==
    (pcC # "input" /\ html # <<>>) => clean.decoded = DecodeOnce(clean.stripped)

----------------------------------------------------------------------------
(* Properties of generateRSS and createRSSItem (specification SpecFeed)    *)

\* C3: the channel has one item per product of the list, the i-th item being
\* createRSSItem of the i-th product: nothing filtered, duplicated, reordered.
C3_OneItemPerProduct ==
    pcF = "built" =>
        /\ Len(FeedItems) = Len(products)
        /\ \A i \in 1..Len(products) :
              /\ FeedItems[i] = createRSSItem(products[i], config)
              /\ FeedItems[i].title = products[i].title

\* a feed of several products, not all the same, was built
C3_Witness ==
    /\ pcF = "built" /\ Len(products) >= 2
    /\ products[1] # products[2]
    /\ FeedItems[1] # FeedItems[2]

\* the k-th segment of s between commas, by the positions of the commas
CommasBefore(s, i) == Cardinality({j \in 1..(i - 1) : s[j] = ","})
SegmentAt(s, k) ==
    LET idx == {i \in 1..Len(s) : s[i] # "," /\ CommasBefore(s, i) = k - 1}
    IN  IF idx = {} THEN <<>>
        ELSE SubSeq(s, CHOOSE i \in idx : \A j \in idx : i <= j,
                       CHOOSE i \in idx : \A j \in idx : j <= i)
SegmentCount(s) == CommasBefore(s, Len(s) + 1) + 1
TrimmedSegments(s) == [k \in 1..SegmentCount(s) |-> Trim(SegmentAt(s, k))]
IsNonEmpty(t) == t # <<>>

HasTags(p) == "tags" \in DOMAIN p /\ p.tags # <<>>

\* C5 as stated: the subjects of an item with a non-empty tags string are the
\* trimmed comma segments in split order with the empty segments dropped; an
\* item without tags, or with empty tags, has no subject field.
C5_SubjectsWithoutEmptySegments ==
    pcF = "built" =>
        \A i \in 1..Len(products) :
            IF HasTags(products[i])
            THEN /\ "dc:subject" \in DOMAIN FeedItems[i]
                 /\ FeedItems[i]["dc:subject"]
                      = SelectSeq(TrimmedSegments(products[i].tags), IsNonEmpty)
            ELSE "dc:subject" \notin DOMAIN FeedItems[i]

\* C5 amended: the subjects are all the trimmed comma segments in split order,
\* the empty ones included (one entry more than there are commas); an item
\* without tags, or with empty tags, has no subject field.
C5_SubjectsAreAllSegments ==
    pcF = "built" =>
        \A i \in 1..Len(products) :
            IF HasTags(products[i])
            THEN /\ "dc:subject" \in DOMAIN FeedItems[i]
                 /\ FeedItems[i]["dc:subject"] = TrimmedSegments(products[i].tags)
            ELSE "dc:subject" \notin DOMAIN FeedItems[i]

\* an item was built from tags with an empty segment next to a non-empty one
C5_Witness ==
    /\ pcF = "built"
    /\ \E i \in 1..Len(products) :
          /\ HasTags(products[i])
          /\ \E j, k \in 1..Len(FeedItems[i]["dc:subject"]) :
                /\ FeedItems[i]["dc:subject"][j] = <<>>
                /\ FeedItems[i]["dc:subject"][k] # <<>>

HasAnImage(p) == "images" \in DOMAIN p /\ Len(p.images) >= 1

\* C6: media:content and media:thumbnail are emitted together or not at all:
\* neither for an item without images; for n >= 1 images, n media:content
\* entries with the image URLs in input order (type image/jpeg, medium image)
\* and one media:thumbnail with the URL of the first image.
C6_MediaFields ==
    pcF = "built" =>
        \A i \in 1..Len(products) :
            LET p == products[i]
                it == FeedItems[i]
            IN  /\ "media:content" \in DOMAIN it <=> "media:thumbnail" \in DOMAIN it
                /\ "media:content" \in DOMAIN it <=> HasAnImage(p)
                /\ HasAnImage(p) =>
                      /\ Len(it["media:content"]) = Len(p.images)
                      /\ \A k \in 1..Len(p.images) :
                            it["media:content"][k].attrs =
                                [url |-> p.images[k].src, type |-> "image/jpeg",
                                 medium |-> "image"]
                      /\ it["media:thumbnail"].attrs = [url |-> p.images[1].src]

\* an item was built from two different images
C6_Witness ==
    /\ pcF = "built"
    /\ \E i \in 1..Len(products) :
          /\ HasAnImage(products[i]) /\ Len(products[i].images) = 2
          /\ products[i].images[1] # products[i].images[2]
          /\ Len(FeedItems[i]["media:content"]) = 2

HasAVariant(p) == "variants" \in DOMAIN p /\ Len(p.variants) >= 1

\* C7: media:price is emitted if and only if the item has at least one
\* variant; its currency is TRY and its value the price of the first variant,
\* whatever the further variants are.
C7_PriceOfFirstVariant ==
    pcF = "built" =>
        \A i \in 1..Len(products) :
            LET p == products[i]
                it == FeedItems[i]
            IN  /\ "media:price" \in DOMAIN it <=> HasAVariant(p)
                /\ HasAVariant(p) =>
                      /\ it["media:price"].attrs.currency = "TRY"
                      /\ it["media:price"].text = p.variants[1].price

\* an item was built from two variants of different prices
C7_Witness ==
    /\ pcF = "built"
    /\ \E i \in 1..Len(products) :
          /\ HasAVariant(products[i]) /\ Len(products[i].variants) = 2
          /\ products[i].variants[1].price # products[i].variants[2].price
          /\ "media:price" \in DOMAIN FeedItems[i]

====
